---- MODULE Spec2Model ----
(***************************************************************************)
(* A model of symphonia-core/src/dsp/mdct.rs: the N-point IMDCT built on a *)
(* DCT-II engine.  Samples are exact real numbers of the ring Z[1/2][zeta], *)
(* zeta = exp(i*pi/Dim), so every product with a cosine of a multiple of   *)
(* pi/Dim, every sum and every halving is computed exactly and equality of *)
(* two samples is decided.  The rounding of f32 is not part of the model.  *)
(***************************************************************************)
EXTENDS Integers, Sequences, FiniteSets, TLC

\* ------------------------------------------------------------------ bounds
\* transforms are run on instances of size up to 2^MaxLog2N
MaxLog2N == 2
\* the amplitudes of the src samples a call is given
MaxSample == 1
\* the fills of dst before a call
MaxPrior == 1
\* the members of the family of arbitrary DCT-II engines
MaxEngine == 2

RECURSIVE Pow2(_)
Pow2(k) == IF k = 0 THEN 1 ELSE 2 * Pow2(k - 1)

MaxN == Pow2(MaxLog2N)
\* zeta^Dim = -1; x^Dim + 1 is the minimal polynomial of zeta (Dim a power of two)
Dim == 4 * MaxN
Idx == 1 .. Dim

\* ------------------------------------------------ exact sample arithmetic
\* A sample is [c |-> <<coefficients of zeta^0 .. zeta^(Dim-1)>>, e |-> k]: the
\* number (SUM c[j] * zeta^(j-1)) / 2^k, kept in lowest terms.
RECURSIVE Norm(_)
Norm(v) ==
    IF v.e > 0 /\ \A j \in Idx : v.c[j] % 2 = 0
    THEN Norm([c |-> [j \in Idx |-> v.c[j] \div 2], e |-> v.e - 1])
    ELSE v

FromInt(z) == [c |-> [j \in Idx |-> IF j = 1 THEN z ELSE 0], e |-> 0]
Half(v) == Norm([c |-> v.c, e |-> v.e + 1])
Neg(v) == [c |-> [j \in Idx |-> 0 - v.c[j]], e |-> v.e]

Add(u, v) ==
    LET e == IF u.e > v.e THEN u.e ELSE v.e
        fu == Pow2(e - u.e)
        fv == Pow2(e - v.e)
    IN Norm([c |-> [j \in Idx |-> fu * u.c[j] + fv * v.c[j]], e |-> e])

Sub(u, v) == Add(u, Neg(v))

\* the coefficient of zeta^(j-1) in zeta^k * (SUM c[s] * zeta^(s-1))
ShiftCoef(c, k, j) ==
    LET r == (j - 1 - k) % (2 * Dim)
    IN IF r < Dim THEN c[r + 1] ELSE 0 - c[r - Dim + 1]

RECURSIVE SumOver(_, _)
SumOver(S, f) ==
    IF S = {} THEN 0
    ELSE LET s == CHOOSE x \in S : TRUE IN f[s] + SumOver(S \ {s}, f)

Support(c) == {s \in Idx : c[s] # 0}

MulBy(u, v) ==
    LET S == Support(u.c)
    IN Norm([c |-> [j \in Idx |->
                      SumOver(S, [s \in S |-> u.c[s] * ShiftCoef(v.c, s - 1, j)])],
             e |-> u.e + v.e])

\* the product of two samples
Mul(u, v) ==
    IF Cardinality(Support(u.c)) <= Cardinality(Support(v.c))
    THEN MulBy(u, v) ELSE MulBy(v, u)

\* 2 * cos(m * pi / Dim) = zeta^m + zeta^(-m)
TwoCos(m) ==
    [c |-> [j \in Idx |-> ShiftCoef(FromInt(1).c, m, j)
                          + ShiftCoef(FromInt(1).c, 0 - m, j)],
     e |-> 0]

\* cos(m * pi / Dim)
Cos(m) == Half(TwoCos(m))

\* the literals of the source
NegHalf == Half(FromInt(-1))
MinusOne == FromInt(-1)

\* --------------------------------------------------------------- buffers
\* A slice is a function on 0 .. len-1, indexed as the source indexes it.
SLen(s) == Cardinality(DOMAIN s)
Fill(len, v) == [x \in 0 .. (len - 1) |-> v]
Min2(a, b) == IF a < b THEN a ELSE b

RECURSIVE SumVals(_, _)
\* f[0] + ... + f[m-1]
SumVals(f, m) == IF m = 0 THEN FromInt(0) ELSE Add(SumVals(f, m - 1), f[m - 1])

\* ------------------------------------------------------------- the state
VARIABLES
    inst,        \* the Imdct instance: NoInst, or [n, table, dct]
    pc,          \* the position of the running operation ("idle": none)
    why,         \* the assertion or bounds check a panic came from
    arg,         \* new: the parameter n
    tbl,         \* new: the local table (empty until collected)
    src,         \* imdct: the parameter src
    dst,         \* imdct: the parameter dst
    scale,       \* imdct: the parameter scale
    i,           \* imdct: the index of the running loop
    sh,          \* a second run of the same call on a fresh instance of the same
                 \* size, with other prior contents of dst and scale kmul * scale
    kmul,        \* the multiplier of the second run's scale
    tag,         \* per element of dst, the step that wrote what it holds
    reads,       \* the elements the last step read, each with the tag it saw
    dctInvoked   \* whether the DCT-II engine has been invoked by this call

vars == <<inst, pc, why, arg, tbl, src, dst, scale, i, sh, kmul, tag, reads, dctInvoked>>

NoInst == [n |-> 0, table |-> <<>>, dct |-> 0]
Empty == <<>>

\* ------------------------------------------------------------ Imdct::new
RECURSIVE CountOnes(_)
CountOnes(n) == IF n = 0 THEN 0 ELSE (n % 2) + CountOnes(n \div 2)

\* u32::is_power_of_two: exactly one bit set
IsPowerOfTwo(n) == CountOnes(n) = 1

\* the largest size new accepts
MaxPoints == 8192

\* table[i] = (2.0 * (c * (2i+1)).cos()) as f32 with c = PI / (2*2*n): the entry
\* [k, d] is the number 2*cos(k*pi/d)
BuildTable(n) == [x \in 0 .. (n - 1) |-> [k |-> 2 * x + 1, d |-> 2 * 2 * n]]

\* the value of a table entry (d divides Dim for every size a transform runs on)
TwVal(t) == TwoCos(t.k * (Dim \div t.d))

\* Dct::new(n): the engine sized n (the collaborator takes any power of two)
DctNew(n) == n

\* the values of n the model constructs with (TLC's integers end at 2^31 - 1)
NewInputs == {0, 1, 2, 3, 4, 5, 6, 8, 12, 100, 4096, 8191, 8192, 8193, 16384,
              1073741824, 2147483647}

Panic(reason) ==
    /\ pc' = "panic"
    /\ why' = reason

NewCall ==
    /\ pc = "idle"
    /\ inst = NoInst
    /\ \E n \in NewInputs : arg' = n
    /\ pc' = "new_pow2"
    /\ UNCHANGED <<inst, why, tbl, src, dst, scale, i, sh, kmul, tag, reads, dctInvoked>>

NewCheckPow2(n) == IsPowerOfTwo(n)

\* a faulty variant: the limit taken as exclusive
NewCheckMax_Strict(n) == n < MaxPoints

NewCheckMax(n) == n <= MaxPoints

NewAssertPow2 ==
    /\ pc = "new_pow2"
    /\ IF NewCheckPow2(arg)
       THEN pc' = "new_max" /\ why' = why
       ELSE Panic("not_pow2")
    /\ UNCHANGED <<inst, arg, tbl, src, dst, scale, i, sh, kmul, tag, reads, dctInvoked>>

NewAssertMax ==
    /\ pc = "new_max"
    /\ IF NewCheckMax(arg)
       THEN pc' = "new_table" /\ why' = why
       ELSE Panic("too_big")
    /\ UNCHANGED <<inst, arg, tbl, src, dst, scale, i, sh, kmul, tag, reads, dctInvoked>>

NewTable ==
    /\ pc = "new_table"
    /\ tbl' = BuildTable(arg)
    /\ pc' = "new_ret"
    /\ UNCHANGED <<inst, why, arg, src, dst, scale, i, sh, kmul, tag, reads, dctInvoked>>

NewReturn ==
    /\ pc = "new_ret"
    /\ inst' = [n |-> arg, table |-> tbl, dct |-> DctNew(arg)]
    /\ tbl' = Empty
    /\ pc' = "idle"
    /\ UNCHANGED <<why, arg, src, dst, scale, i, sh, kmul, tag, reads, dctInvoked>>

\* the instance is released
Drop ==
    /\ pc = "idle"
    /\ inst # NoInst
    /\ inst' = NoInst
    /\ arg' = 0
    /\ UNCHANGED <<pc, why, tbl, src, dst, scale, i, sh, kmul, tag, reads, dctInvoked>>

\* ---------------------------------------------------------- Imdct::imdct
\* a faulty variant: the region length taken as a quarter of N
N4_Quarter == inst.n \div 4

\* let n2 = self.n as usize; let n = n2 << 1; let n4 = n2 >> 1;
N2 == inst.n
NOut == 2 * N2
N4 == N2 \div 2

\* dst.split_at_mut(n4) three times: a, b, c of length n4 and d the rest; "hi"
\* is the slice dst[n2..]
Base(g) ==
    CASE g = "a" -> 0
      [] g = "b" -> N4
      [] g = "c" -> 2 * N4
      [] g = "d" -> 3 * N4
      [] g = "hi" -> N2

RegLen(g) ==
    CASE g \in {"a", "b", "c"} -> N4
      [] g = "d" -> SLen(dst) - 3 * N4
      [] g = "hi" -> SLen(dst) - N2

At(d, g, k) == d[Base(g) + k]

Rd(g, k) == [g |-> g, k |-> k]
Wr(g, k, v) == [g |-> g, k |-> k, v |-> v]

\* line 79: *ds = src * cos
EffPreRot(d, s, tb, x) ==
    [r |-> {}, w |-> {Wr("hi", x, Mul(s[x], TwVal(tb[x])))}]

\* line 96: b[0] = -0.5 * c[0]
EffMapB0(d) ==
    [r |-> {Rd("c", 0)}, w |-> {Wr("b", 0, Mul(NegHalf, At(d, "c", 0)))}]

\* line 99: b[i] = -1.0 * (c[i] + b[i - 1])
EffMapB(d, x) ==
    [r |-> {Rd("c", x), Rd("b", x - 1)},
     w |-> {Wr("b", x, Mul(MinusOne, Add(At(d, "c", x), At(d, "b", x - 1))))}]

\* a faulty variant: c[0] = d[0] - b[n4 - 1]
EffMapC0_Minus(d) ==
    [r |-> {Rd("d", 0), Rd("b", N4 - 1)},
     w |-> {Wr("c", 0, Sub(At(d, "d", 0), At(d, "b", N4 - 1)))}]

\* line 103: c[0] = d[0] + b[n4 - 1]
EffMapC0(d) ==
    [r |-> {Rd("d", 0), Rd("b", N4 - 1)},
     w |-> {Wr("c", 0, Add(At(d, "d", 0), At(d, "b", N4 - 1)))}]

\* line 106: c[i] = d[i] - c[i - 1]
EffMapC(d, x) ==
    [r |-> {Rd("d", x), Rd("c", x - 1)},
     w |-> {Wr("c", x, Sub(At(d, "d", x), At(d, "c", x - 1)))}]

\* a faulty variant: *sa += scale * sc
EffExpA_Accumulate(d, sc, x) ==
    [r |-> {Rd("c", x), Rd("a", x)},
     w |-> {Wr("a", x, Add(At(d, "a", x), Mul(sc, At(d, "c", x))))}]

\* line 115: *sa = scale * sc, over a.iter_mut().zip(c.iter())
EffExpA(d, sc, x) ==
    [r |-> {Rd("c", x)}, w |-> {Wr("a", x, Mul(sc, At(d, "c", x)))}]

\* a faulty variant: the scale applied twice
EffExpDC_ScaleTwice(d, sc, x) ==
    LET s == Mul(sc, Mul(sc, At(d, "b", x)))
    IN [r |-> {Rd("b", x)},
        w |-> {Wr("d", x, s), Wr("c", RegLen("c") - 1 - x, s)}]

\* a faulty variant: d written in reverse too
EffExpDC_ReverseD(d, sc, x) ==
    LET s == Mul(sc, At(d, "b", x))
    IN [r |-> {Rd("b", x)},
        w |-> {Wr("d", RegLen("d") - 1 - x, s), Wr("c", RegLen("c") - 1 - x, s)}]

\* lines 121-123: s = scale * sb; *sd = s; *sc = s, over
\* d.iter_mut().zip(c.iter_mut().rev()).zip(b.iter())
EffExpDC(d, sc, x) ==
    LET s == Mul(sc, At(d, "b", x))
    IN [r |-> {Rd("b", x)},
        w |-> {Wr("d", x, s), Wr("c", RegLen("c") - 1 - x, s)}]

\* a faulty variant: b taken from region c, which the second pass has overwritten
EffExpB_FromC(d, x) ==
    [r |-> {Rd("c", RegLen("c") - 1 - x)},
     w |-> {Wr("b", x, Mul(MinusOne, At(d, "c", RegLen("c") - 1 - x)))}]

\* a faulty variant: a not reversed
EffExpB_NoReverse(d, x) ==
    [r |-> {Rd("a", x)},
     w |-> {Wr("b", x, Mul(MinusOne, At(d, "a", x)))}]

\* line 129: *sb = -1.0 * sa, over b.iter_mut().zip(a.iter().rev())
EffExpB(d, x) ==
    [r |-> {Rd("a", RegLen("a") - 1 - x)},
     w |-> {Wr("b", x, Mul(MinusOne, At(d, "a", RegLen("a") - 1 - x)))}]

\* an index expression b[k] panics unless k < b.len()
InBounds(acc) == acc.k >= 0 /\ acc.k < RegLen(acc.g)

ApplyW(d, W) ==
    [x \in DOMAIN d |->
        IF \E w \in W : Base(w.g) + w.k = x
        THEN (CHOOSE w \in W : Base(w.g) + w.k = x).v
        ELSE d[x]]

Retag(W, t) ==
    [x \in DOMAIN tag |-> IF \E w \in W : Base(w.g) + w.k = x THEN t ELSE tag[x]]

Seen(R, ph) ==
    {[g |-> a.g, k |-> a.k, t |-> tag[Base(a.g) + a.k], ph |-> ph] : a \in R}

\* One statement of imdct on the call (effect e) and on the second run (effect
\* e2): a panic if an index is out of bounds, its writes otherwise.
Statement(e, e2, ph, nextpc, nexti) ==
    IF \A a \in e.r \cup e.w : InBounds(a)
    THEN /\ dst' = ApplyW(dst, e.w)
         /\ sh' = ApplyW(sh, e2.w)
         /\ tag' = Retag(e.w, ph)
         /\ reads' = Seen(e.r, ph)
         /\ pc' = nextpc
         /\ i' = nexti
         /\ why' = why
    ELSE /\ Panic("index")
         /\ reads' = {}
         /\ UNCHANGED <<dst, sh, tag, i>>

\* the loop is over: on to the next statement
Leave(nextpc, nexti) ==
    /\ pc' = nextpc
    /\ i' = nexti
    /\ reads' = {}
    /\ UNCHANGED <<dst, sh, tag, why>>

\* the src vectors a call is given: zero, impulses, the ramp 1, 2, .. (the
\* shape of the test's vector) and the ramp downwards
SrcInputs(len) ==
    {[x \in 0 .. (len - 1) |-> FromInt(0)]}
    \cup {[x \in 0 .. (len - 1) |-> FromInt(IF x = p THEN a ELSE 0)] :
            p \in 0 .. (len - 1), a \in 1 .. MaxSample}
    \cup {[x \in 0 .. (len - 1) |-> FromInt(a * (x + 1))] : a \in 1 .. MaxSample}
    \cup {[x \in 0 .. (len - 1) |-> FromInt(len - a * x)] : a \in 1 .. MaxSample}

\* 1, -3/2 and sqrt(2)/8 (the test's sqrt(2/64))
ScaleInputs == {FromInt(1), Half(FromInt(-3)), Half(Half(Cos(Dim \div 4)))}

KInputs == {FromInt(1), FromInt(-2), Half(FromInt(1))}

LenInputs(n) == {m \in {n - 1, n, n + 1} : m >= 0}

Call ==
    /\ pc = "idle"
    /\ inst # NoInst
    /\ inst.n <= MaxN
    /\ \E sl \in LenInputs(N2), dl \in LenInputs(NOut), p \in 0 .. MaxPrior :
          /\ src' \in SrcInputs(sl)
          /\ dst' = Fill(dl, FromInt(p))
          /\ sh' = [x \in 0 .. (dl - 1) |-> FromInt(p + x + 1)]
          /\ tag' = Fill(dl, "prior")
    /\ scale' \in ScaleInputs
    /\ kmul' \in KInputs
    /\ i' = 0
    /\ reads' = {}
    /\ dctInvoked' = FALSE
    /\ pc' = "assert_dst"
    /\ UNCHANGED <<inst, why, arg, tbl>>

\* line 74: dst.len() == n
LenOkDst(d) == SLen(d) = NOut

\* a faulty variant: the assertion on src.len() left out
LenOkSrc_Skip(x) == TRUE

\* line 75: src.len() == n2
LenOkSrc(x) == SLen(x) = N2

\* line 74: assert_eq!(dst.len(), n)
AssertDst ==
    /\ pc = "assert_dst"
    /\ IF LenOkDst(dst)
       THEN pc' = "assert_src" /\ why' = why
       ELSE Panic("dst_len")
    /\ UNCHANGED <<inst, arg, tbl, src, dst, scale, i, sh, kmul, tag, reads, dctInvoked>>

\* line 75: assert_eq!(src.len(), n2)
AssertSrc ==
    /\ pc = "assert_src"
    /\ IF LenOkSrc(src)
       THEN pc' = "prerot" /\ why' = why
       ELSE Panic("src_len")
    /\ UNCHANGED <<inst, arg, tbl, src, dst, scale, i, sh, kmul, tag, reads, dctInvoked>>

\* lines 78-80: dst[n2..].iter_mut().zip(src).zip(&self.table)
PreRotate ==
    /\ pc = "prerot"
    /\ IF i < Min2(Min2(RegLen("hi"), SLen(src)), SLen(inst.table))
       THEN Statement(EffPreRot(dst, src, inst.table, i),
                      EffPreRot(sh, src, BuildTable(inst.n), i),
                      "prerot", "prerot", i + 1)
       ELSE Leave("dct", 0)
    /\ UNCHANGED <<inst, arg, tbl, src, scale, kmul, dctInvoked>>

\* The DCT-II engine's transform of a buffer of n samples:
\* X[k] = SUM_j x[j] * cos(pi * (2j+1) * k / (2n))
DctII(x) ==
    LET n == SLen(x)
    IN [k \in DOMAIN x |->
          SumVals([j \in DOMAIN x |-> Mul(x[j], Cos((2 * j + 1) * k * (Dim \div (2 * n))))], n)]

\* A family of other engines, each a function of the buffer it is given:
\* X[k] = g * x[(k + g) mod n] + g * k
EngineAny(g, x) ==
    LET n == SLen(x)
    IN [k \in DOMAIN x |-> Add(Mul(FromInt(g), x[(k + g) % n]), FromInt(g * k))]

Hi(d) == [k \in 0 .. (RegLen("hi") - 1) |-> At(d, "hi", k)]

PutHi(d, out) == [x \in DOMAIN d |-> IF x >= N2 THEN out[x - N2] ELSE d[x]]

\* line 84: self.dct.dct_ii_inplace(&mut dst[n2..])
DctInplace(out, out2) ==
    /\ pc = "dct"
    /\ dst' = PutHi(dst, out)
    /\ sh' = PutHi(sh, out2)
    /\ tag' = [x \in DOMAIN tag |-> IF x >= N2 THEN "dct" ELSE tag[x]]
    /\ reads' = Seen({Rd("hi", k) : k \in 0 .. (RegLen("hi") - 1)}, "dct")
    /\ dctInvoked' = TRUE
    /\ pc' = "map_b0"
    /\ UNCHANGED <<inst, why, arg, tbl, src, scale, i, kmul>>

DctStep == DctInplace(DctII(Hi(dst)), DctII(Hi(sh)))

DctAnyStep == \E g \in 0 .. MaxEngine : DctInplace(EngineAny(g, Hi(dst)), EngineAny(g, Hi(sh)))

\* the scale of the second run
Scale2 == Mul(kmul, scale)

\* line 96
MapB0 ==
    /\ pc = "map_b0"
    /\ Statement(EffMapB0(dst), EffMapB0(sh), "map_b", "map_b", 1)
    /\ UNCHANGED <<inst, arg, tbl, src, scale, kmul, dctInvoked>>

\* lines 98-100: for i in 1..n4
MapB ==
    /\ pc = "map_b"
    /\ IF i < N4
       THEN Statement(EffMapB(dst, i), EffMapB(sh, i), "map_b", "map_b", i + 1)
       ELSE Leave("map_c0", 0)
    /\ UNCHANGED <<inst, arg, tbl, src, scale, kmul, dctInvoked>>

\* line 103
MapC0 ==
    /\ pc = "map_c0"
    /\ Statement(EffMapC0(dst), EffMapC0(sh), "map_c", "map_c", 1)
    /\ UNCHANGED <<inst, arg, tbl, src, scale, kmul, dctInvoked>>

\* lines 105-107: for i in 1..n4
MapC ==
    /\ pc = "map_c"
    /\ IF i < N4
       THEN Statement(EffMapC(dst, i), EffMapC(sh, i), "map_c", "map_c", i + 1)
       ELSE Leave("exp_a", 0)
    /\ UNCHANGED <<inst, arg, tbl, src, scale, kmul, dctInvoked>>

\* lines 113-116
ExpA ==
    /\ pc = "exp_a"
    /\ IF i < Min2(RegLen("a"), RegLen("c"))
       THEN Statement(EffExpA(dst, scale, i), EffExpA(sh, Scale2, i), "exp_a", "exp_a", i + 1)
       ELSE Leave("exp_dc", 0)
    /\ UNCHANGED <<inst, arg, tbl, src, scale, kmul, dctInvoked>>

\* lines 118-124
ExpDC ==
    /\ pc = "exp_dc"
    /\ IF i < Min2(Min2(RegLen("d"), RegLen("c")), RegLen("b"))
       THEN Statement(EffExpDC(dst, scale, i), EffExpDC(sh, Scale2, i), "exp_dc", "exp_dc", i + 1)
       ELSE Leave("exp_b", 0)
    /\ UNCHANGED <<inst, arg, tbl, src, scale, kmul, dctInvoked>>

\* lines 126-130
ExpB ==
    /\ pc = "exp_b"
    /\ IF i < Min2(RegLen("b"), RegLen("a"))
       THEN Statement(EffExpB(dst, i), EffExpB(sh, i), "exp_b", "exp_b", i + 1)
       ELSE Leave("done", 0)
    /\ UNCHANGED <<inst, arg, tbl, src, scale, kmul, dctInvoked>>

Clear ==
    /\ src' = Empty
    /\ dst' = Empty
    /\ sh' = Empty
    /\ tag' = Empty
    /\ scale' = FromInt(0)
    /\ kmul' = FromInt(0)
    /\ i' = 0
    /\ reads' = {}
    /\ dctInvoked' = FALSE
    /\ tbl' = Empty
    /\ why' = "none"

\* imdct returns to its caller
Return ==
    /\ pc = "done"
    /\ pc' = "idle"
    /\ Clear
    /\ UNCHANGED <<inst, arg>>

\* a panic unwinds to the caller: a failed new leaves no instance
Unwind ==
    /\ pc = "panic"
    /\ pc' = "idle"
    /\ Clear
    /\ UNCHANGED <<inst, arg>>

Init ==
    /\ inst = NoInst
    /\ pc = "idle"
    /\ why = "none"
    /\ arg = 0
    /\ tbl = Empty
    /\ src = Empty
    /\ dst = Empty
    /\ sh = Empty
    /\ tag = Empty
    /\ scale = FromInt(0)
    /\ kmul = FromInt(0)
    /\ i = 0
    /\ reads = {}
    /\ dctInvoked = FALSE

Common ==
    \/ NewCall \/ NewAssertPow2 \/ NewAssertMax \/ NewTable \/ NewReturn \/ Drop
    \/ Call \/ AssertDst \/ AssertSrc \/ PreRotate
    \/ MapB0 \/ MapB \/ MapC0 \/ MapC \/ ExpA \/ ExpDC \/ ExpB
    \/ Return \/ Unwind

\* the engine computes the DCT-II
Next == Common \/ DctStep

Spec == Init /\ [][Next]_vars

\* the engine is the DCT-II or any member of the family
NextAny == Common \/ DctStep \/ DctAnyStep

SpecAny == Init /\ [][NextAny]_vars

\* ------------------------------------------------ the test's reference
\* tests::imdct_analytical: y[i] = scale * SUM_j x[j] * cos(pi_2n * (2i+1+n_in) * (2j+1))
\* with pi_2n = PI / (2 * n_out) and n_out = 2 * n_in
ImdctAnalytical(x, sc) ==
    LET nin == SLen(x)
        nout == 2 * nin
    IN [y \in 0 .. (nout - 1) |->
          Mul(sc, SumVals([j \in DOMAIN x |->
                             Mul(x[j], Cos((2 * y + 1 + nin) * (2 * j + 1) * (Dim \div (2 * nout))))],
                          nin))]

\* the closed form as the specification writes it, with pi / (2N) for N inputs
SpecClosedForm(x, sc) ==
    LET nin == SLen(x)
    IN [y \in 0 .. (2 * nin - 1) |->
          Mul(sc, SumVals([j \in DOMAIN x |->
                             Mul(x[j], Cos((2 * y + 1 + nin) * (2 * j + 1) * (Dim \div (2 * nin))))],
                          nin))]

\* 1000 * cos(m * pi / 16), to the nearest integer
CosMilli16(m) ==
    LET t == <<1000, 981, 924, 831, 707, 556, 383, 195, 0>>
        r == m % 32
        f == IF r > 16 THEN 32 - r ELSE r
    IN IF f <= 8 THEN t[f + 1] ELSE 0 - t[16 - f + 1]

AbsInt(z) == IF z < 0 THEN 0 - z ELSE z

\* What |u - v| < 0.00001 implies for samples of the subring generated by
\* cos(pi/16): with u - v = (SUM c[k] * cos((k-1)*pi/Dim)) / 2^e, the sum taken with
\* the cosines in thousandths is off by at most half a thousandth per unit of
\* |c[k]|, so 100 * |SUM c[k] * CosMilli| <= 2^e + 50 * SUM |c[k]|.
WithinTol(u, v) ==
    LET d == Sub(u, v)
        step == Dim \div 16
        S == {k \in Idx : d.c[k] # 0}
    IN /\ \A k \in S : (k - 1) % step = 0
       /\ 100 * AbsInt(SumOver(S, [k \in S |-> d.c[k] * CosMilli16((k - 1) \div step)]))
            <= Pow2(d.e) + 50 * SumOver(S, [k \in S |-> AbsInt(d.c[k])])

InImdct == pc \in {"assert_dst", "assert_src", "prerot", "dct", "map_b0", "map_b",
                   "map_c0", "map_c", "exp_a", "exp_dc", "exp_b", "done"}
             \/ (pc = "panic" /\ why \in {"dst_len", "src_len", "index"})

Zero == FromInt(0)

\* ------------------------------------------------------------------ C1
\* C1 (as amended): after every imdct call that returns, each dst[i], i in
\* [0, 2N), equals scale * SUM_j src[j] * cos((pi/(4N)) * (2i+1+N) * (2j+1)), the
\* closed form the test computes, exactly in exact arithmetic.
C1_MatchesAnalytical ==
    pc = "done" => \A x \in DOMAIN dst : dst[x] = ImdctAnalytical(src, scale)[x]

\* a returned call of the largest size on the ramp with scale sqrt(2)/8
C1_Witness ==
    /\ pc = "done"
    /\ inst.n = MaxN
    /\ src = [x \in 0 .. (MaxN - 1) |-> FromInt(x + 1)]
    /\ scale = Half(Half(Cos(Dim \div 4)))
    /\ dst[0] # Zero

\* C1 as stated: each dst[i] is within 1e-5 of the closed form with pi/(2N)
C1_SpecFormulaWithinTol ==
    (pc = "done" /\ inst.n <= 4) =>
        \A x \in DOMAIN dst : WithinTol(dst[x], SpecClosedForm(src, scale)[x])

\* ------------------------------------------------------------------ C2
PowersOfTwo == {Pow2(k) : k \in 0 .. 30}

Accepted(n) == n \in PowersOfTwo /\ n <= 8192

\* C2: new(n) gets past its assertions, and produces an instance, exactly when n
\* is a power of two and n <= 8192; when it fails no table entry has been
\* computed and no instance exists; the instance produced has size n and a
\* table of n entries.
C2_NewIffPow2Max ==
    /\ pc \in {"new_table", "new_ret"} => Accepted(arg)
    /\ (pc = "panic" /\ why \in {"not_pow2", "too_big"}) =>
          (~Accepted(arg) /\ tbl = Empty /\ inst = NoInst)
    /\ inst # NoInst =>
          (Accepted(inst.n) /\ inst.n = arg /\ SLen(inst.table) = inst.n /\ inst.dct = inst.n)

\* new(8192) has returned an instance
C2_Witness == pc = "idle" /\ inst # NoInst /\ inst.n = 8192 /\ arg = 8192

\* ------------------------------------------------------------------ C3
LenMismatch == SLen(src) # inst.n \/ SLen(dst) # 2 * inst.n

\* C3: a call whose src or dst has the wrong length fails at its start: it never
\* gets past the two assertions, no element of dst has been written and the
\* DCT-II engine has not been invoked.
C3_NoPartialWork ==
    (InImdct /\ LenMismatch) =>
        /\ pc \in {"assert_dst", "assert_src", "panic"}
        /\ pc = "panic" => why \in {"dst_len", "src_len"}
        /\ \A x \in DOMAIN dst : tag[x] = "prior" /\ dst[x] \in {FromInt(p) : p \in 0 .. MaxPrior}
        /\ ~dctInvoked

\* a call with dst of the right length and src of a wrong one has failed
C3_Witness ==
    /\ pc = "panic"
    /\ why = "src_len"
    /\ inst.n = 2
    /\ SLen(dst) = 4
    /\ SLen(src) = 3

\* ------------------------------------------------------------------ C4
\* C4: a call aborts only on a length violation, before any write: a panicked
\* call has a wrong length, has written no element of dst and has not invoked
\* the engine.
C4_AbortsOnlyOnLengths ==
    (InImdct /\ pc = "panic") =>
        /\ LenMismatch
        /\ \A x \in DOMAIN dst : tag[x] = "prior"
        /\ ~dctInvoked

\* ------------------------------------------------------------------ C5
\* C5: a returned call ends with the dst of a run of the same (N, src, scale) on
\* a fresh instance and other prior contents of dst, the engine being any
\* function of its buffer; no step reads an element of dst that the call has
\* not written, every element has been written at the end, and the instance is
\* as constructed.
C5_Deterministic ==
    /\ InImdct => (inst.table = BuildTable(inst.n) /\ inst.n = arg)
    /\ \A r \in reads : r.t # "prior"
    /\ pc = "done" =>
          /\ \A x \in DOMAIN dst : tag[x] # "prior"
          /\ kmul = FromInt(1) => dst = sh

\* a returned call whose second run started from other contents
C5_Witness ==
    /\ pc = "done"
    /\ inst.n = MaxN
    /\ kmul = FromInt(1)
    /\ scale = Half(FromInt(-3))
    /\ dst = sh
    /\ \E x \in DOMAIN dst : dst[x] # Zero

\* ------------------------------------------------------------------ C6
\* C6: the run with scale k * scale ends, at every index, with k times what the
\* run with scale ends with.
C6_ScaleHomogeneous ==
    pc = "done" => \A x \in DOMAIN dst : sh[x] = Mul(kmul, dst[x])

\* a returned call with k = -2 and a non-zero output
C6_Witness ==
    /\ pc = "done"
    /\ inst.n = MaxN
    /\ kmul = FromInt(-2)
    /\ scale = Half(Half(Cos(Dim \div 4)))
    /\ dst[0] # Zero
    /\ sh[0] = Mul(kmul, dst[0])

\* ------------------------------------------------------------------ C7
PreRotated == [j \in DOMAIN src |-> Mul(src[j], TwVal(inst.table[j]))]

\* C7 (as amended): when step 3 starts, the DCT-II output of the pre-rotated
\* samples occupies exactly dst[N..2N); for N >= 2 the regions A, B, C, D have
\* length N/2 each, at [0,N/2), [N/2,N), [N,3N/2), [3N/2,2N), so C and D are
\* exactly the elements holding DCT-II output and A and B hold none.
C7_HalfRegions ==
    pc = "map_b0" =>
        /\ \A x \in DOMAIN dst : (tag[x] = "dct") <=> (x >= inst.n /\ x < 2 * inst.n)
        /\ Hi(dst) = DctII(PreRotated)
        /\ \A g \in {"a", "b"} : \A k \in 0 .. (RegLen(g) - 1) : tag[Base(g) + k] = "prior"
        /\ inst.n >= 2 =>
              /\ 2 * (inst.n \div 2) = inst.n
              /\ \A g \in {"a", "b", "c", "d"} : RegLen(g) = inst.n \div 2
              /\ Base("a") = 0
              /\ Base("b") = inst.n \div 2
              /\ Base("c") = inst.n
              /\ Base("d") = inst.n + inst.n \div 2

\* step 3 starts on an instance of size 4: regions of two elements
C7_Witness ==
    /\ pc = "map_b0"
    /\ inst.n = 4
    /\ RegLen("d") = 2
    /\ tag = (0 :> "prior" @@ 1 :> "prior" @@ 2 :> "prior" @@ 3 :> "prior"
              @@ 4 :> "dct" @@ 5 :> "dct" @@ 6 :> "dct" @@ 7 :> "dct")

\* C7 as stated: the regions have length N/4, at [0,N/4), [N/4,N/2), [N/2,3N/4),
\* [3N/4,N), and C and D are exactly the elements holding DCT-II output
C7_QuarterRegions ==
    (pc = "map_b0" /\ inst.n >= 4) =>
        LET q == inst.n \div 4
        IN /\ \A g \in {"a", "b", "c", "d"} : RegLen(g) = q
           /\ \A x \in DOMAIN dst : (tag[x] = "dct") <=> (x >= 2 * q /\ x < 4 * q)

\* ------------------------------------------------------------------ C8
\* C8 (as amended): in the second pass of step 4, iteration i stores
\* s = scale * B[i], B[i] the value step 3 left, at index i of D and at index
\* q-1-i of C.
C8_ForwardDReverseC ==
    pc = "exp_dc" =>
        \A j \in 0 .. (i - 1) :
            /\ tag[Base("b") + j] = "map_b"
            /\ At(dst, "d", j) = Mul(scale, At(dst, "b", j))
            /\ At(dst, "c", N4 - 1 - j) = Mul(scale, At(dst, "b", j))

\* the pass is over on regions of two elements that differ
C8_Witness ==
    /\ pc = "exp_dc"
    /\ inst.n = 4
    /\ i = 2
    /\ At(dst, "d", 0) # At(dst, "d", 1)
    /\ At(dst, "c", 1) = At(dst, "d", 0)

\* C8 as stated: s is stored at index q-1-i of D and at index q-1-i of C
C8_ReverseDReverseC ==
    (pc = "exp_dc" /\ i = N4) =>
        \A j \in 0 .. (N4 - 1) :
            /\ At(dst, "d", N4 - 1 - j) = Mul(scale, At(dst, "b", j))
            /\ At(dst, "c", N4 - 1 - j) = Mul(scale, At(dst, "b", j))

\* ------------------------------------------------------------------ C9
\* C9: every read of steps 3 and 4 sees the value it is meant to see: step 3
\* reads of C (to compute B) and of D see DCT-II output, and its reads of B and
\* of C (to compute C) see step-3 values; the first pass of step 4 reads C's
\* step-3 values, the second B's step-3 values, the last the values the first
\* pass stored in A; step 4 never reads D nor any DCT-II output.
C9_ReadsSeeIntended ==
    \A r \in reads :
        /\ r.ph = "map_b" => ((r.g = "c" /\ r.t = "dct") \/ (r.g = "b" /\ r.t = "map_b"))
        /\ r.ph = "map_c" =>
              \/ r.g = "d" /\ r.t = "dct"
              \/ r.g = "b" /\ r.t = "map_b"
              \/ r.g = "c" /\ r.t = "map_c"
        /\ r.ph = "exp_a" => (r.g = "c" /\ r.t = "map_c")
        /\ r.ph = "exp_dc" => (r.g = "b" /\ r.t = "map_b")
        /\ r.ph = "exp_b" => (r.g = "a" /\ r.t = "exp_a")
        /\ r.ph \in {"exp_a", "exp_dc", "exp_b"} => (r.g # "d" /\ r.t # "dct")

\* the last pass reads A after the second pass has overwritten C and D
C9_Witness ==
    /\ pc = "exp_b"
    /\ inst.n = 4
    /\ i = 2
    /\ reads = {[g |-> "a", k |-> 0, t |-> "exp_a", ph |-> "exp_b"]}
    /\ tag[Base("c")] = "exp_dc"

\* ----------------------------------------------------------------- C10
\* C10: after every returned call on an instance of size N >= 2, whatever the
\* engine computes, dst[N/2 + i] = -dst[N/2 - 1 - i] and dst[N + i] =
\* dst[2N - 1 - i] for i in [0, N/2), and dst holds at most N values up to sign.
C10_OutputSymmetry ==
    (pc = "done" /\ inst.n >= 2) =>
        LET h == inst.n \div 2
        IN /\ \A x \in 0 .. (h - 1) :
                /\ dst[h + x] = Neg(dst[h - 1 - x])
                /\ dst[inst.n + x] = dst[2 * inst.n - 1 - x]
           /\ Cardinality({{dst[x], Neg(dst[x])} : x \in DOMAIN dst}) <= inst.n

\* a returned call of the largest size with a non-zero, non-constant output
C10_Witness ==
    /\ pc = "done"
    /\ inst.n = MaxN
    /\ dst[0] # Zero
    /\ dst[0] # dst[1]
    /\ dst[MaxN] # dst[MaxN + 1]
    /\ dst[MaxN] = dst[2 * MaxN - 1]

====
